---- MODULE Spec2Model ----
(***************************************************************************)
(* A model of src/inference.py: the inference endpoint (predict), the      *)
(* artifact resolver (resolve_input_path), the publisher (upload_output),  *)
(* the submitter (submit_workflow) and the poller (wait_for_completion),   *)
(* together with the environment they act on: the local file system, the   *)
(* object store and the generation engine.                                 *)
(*                                                                         *)
(* Strings are sequences of tokens.  The tokens "s3://" and "/" are the    *)
(* only ones the code's string operations look at (startswith, replace,    *)
(* split, basename, join); every other token is a name without a slash.    *)
(***************************************************************************)
EXTENDS Integers, Sequences, FiniteSets, TLC

\* ------------------------------------------------------------------ bounds

\* wait_for_completion's default arguments (src/inference.py:113), in ticks
\* of the model's clock; predict calls it with the defaults only.
PollIntervalDefault == 1
MaxWaitDefault == 2
\* The arguments a direct call of wait_for_completion is given: 1..MaxPollInterval
\* and 0..MaxWaitArg.
MaxPollInterval == 2
MaxWaitArg == 3
\* A status query takes 0..MaxQueryTime ticks (requests.get, timeout=10).
MaxQueryTime == 1
\* A direct call of wait_for_completion starts at a time in 0..MaxStartTime.
MaxStartTime == 1
\* The items one category of one node's outputs holds, at most.
MaxItems == 2

\* ----------------------------------------------------------------- strings

S3 == "s3://"
SL == "/"

\* uri.startswith("s3://")
StartsWithS3(uri) == Len(uri) > 0 /\ uri[1] = S3

\* uri.replace("s3://", ""): every occurrence is removed
ReplaceS3(uri) == SelectSeq(uri, LAMBDA t : t # S3)

SlashAt(s) == {i \in 1..Len(s) : s[i] = SL}

Min(S) == CHOOSE x \in S : \A y \in S : x <= y
Max(S) == CHOOSE x \in S : \A y \in S : x >= y

\* s.split("/"): a split at every slash
RECURSIVE SplitEvery(_)
SplitEvery(s) ==
    IF SlashAt(s) = {} THEN <<s>>
    ELSE LET i == Min(SlashAt(s))
         IN <<SubSeq(s, 1, i - 1)>> \o SplitEvery(SubSeq(s, i + 1, Len(s)))

\* s.split("/", 1): at most one split, at the first slash
SplitOnce(s) ==
    IF SlashAt(s) = {} THEN <<s>>
    ELSE LET i == Min(SlashAt(s)) IN <<SubSeq(s, 1, i - 1), SubSeq(s, i + 1, Len(s))>>

\* os.path.basename(p): what follows the last slash
Basename(p) ==
    IF SlashAt(p) = {} THEN p
    ELSE SubSeq(p, Max(SlashAt(p)) + 1, Len(p))

\* os.path.join(d, name), for a name that does not start with a slash
PathJoin(d, name) ==
    IF Len(d) > 0 /\ d[Len(d)] = SL THEN d \o name ELSE d \o <<SL>> \o name

\* ------------------------------------------------------- program constants

INPUT_DIR == <<SL, "app", SL, "inputs">>
OUTPUT_DIR == <<SL, "app", SL, "ComfyUI", SL, "output">>
CANONICAL == <<"vibe_infinite", ".json">>
required_fields == <<"audio_s3", "transcript_s3", "image_s3", "output_s3_bucket">>

\* ------------------------------------------------------------------ inputs

AllJobs == {"j1", "j2"}

\* Input references: remote without a key, remote with an empty key, remote
\* with a one-segment key, remote with a two-segment key of the same
\* basename, an existing local path and a local path that does not exist.
RefNoKey == <<S3, "b">>
RefEmptyKey == <<S3, "b", SL>>
RefKey == <<S3, "b", SL, "k">>
RefDeep == <<S3, "b", SL, "d", SL, "k">>
RefI == <<S3, "b", SL, "i">>
RefLocal == <<SL, "data", SL, "x">>
RefMissing == <<SL, "data", SL, "y">>

AudioRefs == {RefNoKey, RefEmptyKey, RefKey, RefDeep, RefLocal, RefMissing}
TranscriptRefs == {RefDeep, RefLocal}
ImageRefs == {RefI, RefLocal}

\* Output destinations: a bucket without prefix, a bucket with a prefix, a
\* local directory that does not exist yet, and the directory the engine
\* writes its files to.
DestBucket == <<S3, "out", SL>>
DestPrefix == <<S3, "out", SL, "pre">>
DestDir == <<SL, "res">>
DestOut == OUTPUT_DIR
Dests == {DestBucket, DestPrefix, DestDir, DestOut}

SuppliedJobId == <<"J">>
None == <<"None">>

FieldValues(f) ==
    CASE f = "audio_s3" -> AudioRefs
      [] f = "transcript_s3" -> TranscriptRefs
      [] f = "image_s3" -> ImageRefs
      [] f = "output_s3_bucket" -> Dests
      [] f = "job_id" -> {SuppliedJobId}

AllFields == {"audio_s3", "transcript_s3", "image_s3", "output_s3_bucket", "job_id"}

\* The JSON objects a request body may hold: any subset of the fields.
ObjectsOver(F) ==
    {d \in [F -> UNION {FieldValues(f) : f \in F}] : \A f \in F : d[f] \in FieldValues(f)}

ObjectBodies == UNION {ObjectsOver(F) : F \in SUBSET AllFields}

\* A request: a body request.get_json() cannot parse ("malformed"), a body
\* that parses to a non-empty value that is no object ("nonobject"), or a
\* JSON object.
Requests ==
    {[kind |-> "malformed"], [kind |-> "nonobject"]}
        \cup {[kind |-> "object", data |-> d] : d \in ObjectBodies}

\* --------------------------------------------------------------- workflows

\* A workflow document is what json.load gives for a template file: a
\* mapping from node id to node ("mapping"), a JSON value that is no mapping
\* ("list"), or nothing at all for a file that is not JSON ("corrupt").
WFcanon ==
    [kind |-> "mapping",
     nodes |-> ("1" :> [class_type |-> <<"LoadAudio">>,
                        inputs |-> [audio |-> <<"placeholder">>, seed |-> <<"7">>]]
             @@ "2" :> [class_type |-> <<"Talk">>,
                        inputs |-> [text_file |-> <<"placeholder">>,
                                    image |-> <<"placeholder">>,
                                    model |-> <<"1">>]]
             @@ "3" :> [class_type |-> <<"SaveVideo">>])]
WFplain ==
    [kind |-> "mapping",
     nodes |-> ("1" :> [class_type |-> <<"Noise">>, inputs |-> [seed |-> <<"7">>]]
             @@ "2" :> [class_type |-> <<"SaveImage">>])]
WFaudio ==
    [kind |-> "mapping",
     nodes |-> ("7" :> [class_type |-> <<"LoadAudio">>,
                        inputs |-> [audio |-> <<"placeholder">>]])]
WFcorrupt == [kind |-> "corrupt"]
WFlist == [kind |-> "list"]

NameA == <<"a", ".json">>
NameB == <<"b", ".json">>
NameC == <<"c", ".json">>
NameD == <<"d", ".json">>
NameTxt == <<"notes", ".txt">>

\* What each template file holds.
TemplateContent(name) ==
    CASE name = CANONICAL -> WFcanon
      [] name = NameA -> WFplain
      [] name = NameB -> WFaudio
      [] name = NameC -> WFcorrupt
      [] name = NameD -> WFlist
      [] OTHER -> WFcorrupt

\* The states of /app/ComfyUI/workflows: absent, or a directory of files.
TemplateDirs ==
    {[exists |-> FALSE, files |-> {}]}
        \cup {[exists |-> TRUE, files |-> F] :
                 F \in {{NameTxt}, {CANONICAL, NameA}, {NameA, NameB, NameTxt},
                        {NameC}, {NameD}}}

\* -------------------------------------------------------------------- state

VARIABLES
    s3_client,      \* whether boto3.client succeeded (lines 24-29)
    fs,             \* the files of the local file system: path -> content
    dirs,           \* its directories
    wfdir,          \* the workflow template directory
    s3,             \* the object store: <<bucket, key>> -> content
    engine,         \* the generation engine's jobs: handle -> record
    now,            \* the clock, in ticks
    pc,             \* where each job's handler is
    request,        \* the request each job received
    job_id,         \* predict's job_id
    paths,          \* predict's audio_path, transcript_path, image_path
    workflow,       \* predict's workflow (with workflow_path)
    prompt_id,      \* predict's prompt_id
    result,         \* predict's result
    cursor,         \* the position of the output loops in the result
    outputs,        \* predict's outputs
    response,       \* the response predict returned
    poll,           \* the frame of a wait_for_completion call
    visited,        \* the output items each job visited, and what it found
    calls,          \* the calls each job made to the store and the engine
    raised,         \* the exception each job's handler caught, and where
    health          \* the last answer of the health endpoint

envVars == <<s3_client, fs, dirs, wfdir, s3, engine, now>>
jobVars == <<pc, request, job_id, paths, workflow, prompt_id, result, cursor,
             outputs, response>>
vars == <<s3_client, fs, dirs, wfdir, s3, engine, now, pc, request, job_id, paths,
          workflow, prompt_id, result, cursor, outputs, response, visited, poll, calls,
          raised, health>>

Unset == <<"unset">>
NoResponse == [http |-> 0, body |-> [none |-> TRUE]]
NoExc == [type |-> "none", msg |-> <<>>, at |-> "none"]
NoWorkflow == [path |-> Unset, doc |-> [kind |-> "none"], workflow_files |-> <<>>]
NoResult == [none |-> TRUE]
IdlePoll == [state |-> "IDLE", at |-> "none", prompt_id |-> Unset, poll_interval |-> 0,
             max_wait |-> 0, start_time |-> 0, returned |-> NoResult,
             last |-> "none", failed |-> FALSE, reported |-> FALSE, ended_at |-> 0]
NoHealth == [query |-> "none", response |-> NoResponse]

\* The job identifiers the engine hands out, one per submission.
HandleOf(j) == <<"prompt", j>>
Handles == {HandleOf(j) : j \in AllJobs}
NoEngineJob == [status |-> "none", prompt |-> [kind |-> "none"], outputs |-> <<>>]

ObjContent(bucket, key) == <<"object">> \o bucket \o <<":">> \o key
FileContent(path) == <<"file">> \o path

\* os.path.exists(p) that finds every path
ExistsAnywhere(p) == TRUE

\* os.path.exists(p)
Exists(p) == p \in DOMAIN fs \/ p \in dirs

WriteFile(f, p, c) == [q \in DOMAIN f \cup {p} |-> IF q = p THEN c ELSE f[q]]
\* a removal that leaves the file where it is
RemoveNothing(f, p) == f

RemoveFile(f, p) == [q \in DOMAIN f \ {p} |-> f[q]]

Call(op, args) == [op |-> op, args |-> args]

\* The files, directories and objects there are when the service starts.  One
\* local file has a name that reads as an s3:// URI.
InitFs == (RefLocal :> FileContent(RefLocal)) @@ (RefI :> FileContent(RefI))
InitDirs == {<<SL, "data">>, OUTPUT_DIR}
InitS3 ==
    [o \in {<<<<"b">>, <<"k">>>>, <<<<"b">>, <<"d", SL, "k">>>>,
            <<<<"b">>, <<"i">>>>}
        |-> ObjContent(o[1], o[2])]

InitEnv ==
    /\ s3_client \in BOOLEAN
    /\ fs = InitFs
    /\ dirs = InitDirs
    /\ wfdir \in TemplateDirs
    /\ s3 = InitS3
    /\ engine = [h \in Handles |-> NoEngineJob]
    /\ now = 0

InitLocals ==
    /\ request = [j \in AllJobs |-> [kind |-> "none"]]
    /\ job_id = [j \in AllJobs |-> None]
    /\ paths = [j \in AllJobs |-> <<>>]
    /\ workflow = [j \in AllJobs |-> NoWorkflow]
    /\ prompt_id = [j \in AllJobs |-> Unset]
    /\ result = [j \in AllJobs |-> NoResult]
    /\ cursor = [j \in AllJobs |-> 0]
    /\ outputs = [j \in AllJobs |-> <<>>]
    /\ response = [j \in AllJobs |-> NoResponse]
    /\ visited = [j \in AllJobs |-> <<>>]
    /\ calls = [j \in AllJobs |-> <<>>]
    /\ raised = [j \in AllJobs |-> NoExc]
    /\ health = NoHealth

Init ==
    /\ InitEnv
    /\ InitLocals
    /\ pc = [j \in AllJobs |-> "idle"]
    /\ poll = [j \in AllJobs |-> IdlePoll]

\* ------------------------------------------------------------------ predict

Exc(type, msg, at) == [type |-> type, msg |-> msg, at |-> at]

\* return jsonify({"error": msg}), code        (lines 163, 172, 185)
ErrorResponse(msg, code) == [http |-> code, body |-> [error |-> msg]]

\* the except branch of predict                 (lines 236-246)
FailedResponse(jid, e, t) ==
    [http |-> 500,
     body |-> [job_id |-> jid, status |-> "FAILED", error |-> e.msg, timestamp |-> t]]

\* the last return of predict                   (lines 228-234)
CompletedResponse(jid, pid, outs, t) ==
    [http |-> 200,
     body |-> [job_id |-> jid, status |-> "COMPLETED", prompt_id |-> pid,
               outputs |-> outs, timestamp |-> t]]

\* An except branch that notes the exception and has the step run again.
CatchAndRetry(j, e) ==
    /\ raised' = [raised EXCEPT ![j] = e]
    /\ UNCHANGED <<response, pc>>

\* An exception reaches the except branch: the handler answers and ends.
Catch(j, e) ==
    /\ raised' = [raised EXCEPT ![j] = e]
    /\ response' = [response EXCEPT ![j] = FailedResponse(job_id'[j], e, now)]
    /\ pc' = [pc EXCEPT ![j] = "done"]

\* An early return.
Return(j, resp) ==
    /\ response' = [response EXCEPT ![j] = resp]
    /\ pc' = [pc EXCEPT ![j] = "done"]
    /\ UNCHANGED raised

\* The next statement.
Goto(j, label) ==
    /\ pc' = [pc EXCEPT ![j] = label]
    /\ UNCHANGED <<response, raised>>

\* A request arrives, one of the requests R.
ReceiveFrom(j, R) ==
    /\ pc[j] = "idle"
    /\ \E r \in R : request' = [request EXCEPT ![j] = r]
    /\ pc' = [pc EXCEPT ![j] = "validate"]
    /\ UNCHANGED <<health, envVars, job_id, paths, workflow, prompt_id, result, cursor, outputs,
                   response, visited, poll, calls, raised>>

\* A request arrives.
Receive(j) == ReceiveFrom(j, Requests)

\* uuid.uuid4()
NewJobId(j) == <<"uuid", j>>

\* a validation that forgets the last required field
MissingInputFields(data) ==
    {i \in 1..(Len(required_fields) - 1) : required_fields[i] \notin DOMAIN data}

\* the first required field the body lacks      (lines 169-172)
MissingFields(data) ==
    {i \in 1..Len(required_fields) : required_fields[i] \notin DOMAIN data}

\* lines 158-172: parse the request, assign job_id, validate
Validate(j) ==
    /\ pc[j] = "validate"
    /\ LET r == request[j] IN
       IF r.kind = "malformed" THEN
            /\ UNCHANGED job_id
            /\ Catch(j, Exc("BadRequest", <<"Failed to decode JSON object">>, "parse"))
       ELSE IF r.kind = "object" /\ DOMAIN r.data = {} THEN
            /\ UNCHANGED job_id
            /\ Return(j, ErrorResponse(<<"No JSON data provided">>, 400))
       ELSE IF r.kind = "nonobject" THEN
            /\ UNCHANGED job_id
            /\ Catch(j, Exc("AttributeError", <<"object has no attribute get">>, "parse"))
       ELSE
            /\ job_id' = [job_id EXCEPT ![j] =
                    IF "job_id" \in DOMAIN r.data THEN r.data["job_id"] ELSE NewJobId(j)]
            /\ IF MissingFields(r.data) # {}
               THEN Return(j, ErrorResponse(
                        <<"Missing required field", required_fields[Min(MissingFields(r.data))]>>,
                        400))
               ELSE Goto(j, "resolve_audio")
    /\ UNCHANGED <<health, envVars, request, paths, workflow, prompt_id, result, cursor, outputs,
                   visited, poll, calls>>

\* ------------------------------------------------------ resolve_input_path

\* a resolve_input_path that takes every s3:// URI to the store, client or not
resolve_input_path_any_client(uri, transport_ok) ==
    IF StartsWithS3(uri) THEN
        LET uri_parts == SplitOnce(ReplaceS3(uri)) IN
        IF Len(uri_parts) # 2 THEN
            [ret |-> Unset, exc |-> Exc("ValueError", <<"Invalid S3 URI format">>, "resolve"),
             fs |-> fs, dirs |-> dirs, calls |-> <<>>]
        ELSE
            LET bucket == uri_parts[1]
                key == uri_parts[2]
                local_path == PathJoin(INPUT_DIR, Basename(key))
                call == Call("download_file", <<bucket, key, local_path>>)
            IN  IF transport_ok /\ <<bucket, key>> \in DOMAIN s3 THEN
                    [ret |-> local_path, exc |-> NoExc,
                     fs |-> WriteFile(fs, local_path, s3[<<bucket, key>>]),
                     dirs |-> dirs \cup {INPUT_DIR}, calls |-> <<call>>]
                ELSE
                    [ret |-> Unset, exc |-> Exc("ClientError", <<"download failed">>, "resolve"),
                     fs |-> fs, dirs |-> dirs \cup {INPUT_DIR}, calls |-> <<call>>]
    ELSE
        IF ~Exists(uri) THEN
            [ret |-> Unset, exc |-> Exc("FileNotFoundError", <<"Input file not found">>, "resolve"),
             fs |-> fs, dirs |-> dirs, calls |-> <<>>]
        ELSE
            [ret |-> uri, exc |-> NoExc, fs |-> fs, dirs |-> dirs, calls |-> <<>>]

\* resolve_input_path(uri), lines 31-56.  transport_ok: whether the store
\* answers the download.  The outcome: the value returned or the exception
\* raised, the file system afterwards and the calls made.
resolve_input_path(uri, transport_ok) ==
    IF StartsWithS3(uri) /\ s3_client THEN
        LET uri_parts == SplitOnce(ReplaceS3(uri)) IN
        IF Len(uri_parts) # 2 THEN
            [ret |-> Unset, exc |-> Exc("ValueError", <<"Invalid S3 URI format">>, "resolve"),
             fs |-> fs, dirs |-> dirs, calls |-> <<>>]
        ELSE
            LET bucket == uri_parts[1]
                key == uri_parts[2]
                local_path == PathJoin(INPUT_DIR, Basename(key))
                call == Call("download_file", <<bucket, key, local_path>>)
            IN  IF transport_ok /\ <<bucket, key>> \in DOMAIN s3 THEN
                    [ret |-> local_path, exc |-> NoExc,
                     fs |-> WriteFile(fs, local_path, s3[<<bucket, key>>]),
                     dirs |-> dirs \cup {INPUT_DIR}, calls |-> <<call>>]
                ELSE
                    [ret |-> Unset, exc |-> Exc("ClientError", <<"download failed">>, "resolve"),
                     fs |-> fs, dirs |-> dirs \cup {INPUT_DIR}, calls |-> <<call>>]
    ELSE
        IF ~Exists(uri) THEN
            [ret |-> Unset, exc |-> Exc("FileNotFoundError", <<"Input file not found">>, "resolve"),
             fs |-> fs, dirs |-> dirs, calls |-> <<>>]
        ELSE
            [ret |-> uri, exc |-> NoExc, fs |-> fs, dirs |-> dirs, calls |-> <<>>]

ResolveField(label) ==
    CASE label = "resolve_audio" -> "audio_s3"
      [] label = "resolve_transcript" -> "transcript_s3"
      [] label = "resolve_image" -> "image_s3"

AfterResolve(label) ==
    CASE label = "resolve_audio" -> "resolve_transcript"
      [] label = "resolve_transcript" -> "resolve_image"
      [] label = "resolve_image" -> "load"

\* lines 175-177: one call of resolve_input_path
Resolve(j) ==
    /\ pc[j] \in {"resolve_audio", "resolve_transcript", "resolve_image"}
    /\ \E transport_ok \in BOOLEAN :
        LET r == resolve_input_path(request[j].data[ResolveField(pc[j])], transport_ok) IN
        /\ fs' = r.fs
        /\ dirs' = r.dirs
        /\ calls' = [calls EXCEPT ![j] = @ \o r.calls]
        /\ IF r.exc # NoExc
           THEN /\ UNCHANGED <<job_id, paths>>
                /\ Catch(j, r.exc)
           ELSE /\ paths' = [paths EXCEPT ![j] = Append(@, r.ret)]
                /\ UNCHANGED job_id
                /\ Goto(j, AfterResolve(pc[j]))
    /\ UNCHANGED <<health, s3_client, wfdir, s3, engine, now, request, workflow, prompt_id,
                   result, cursor, outputs, visited, poll>>

\* ------------------------------------------------------- workflow template

EndsWithJson(name) == Len(name) > 0 /\ name[Len(name)] = ".json"

\* The orders in which os.listdir may return the files of a directory.
Listings(F) ==
    {l \in [1..Cardinality(F) -> F] : \A a, b \in 1..Cardinality(F) : a # b => l[a] # l[b]}

\* workflow_files[-1]
FallbackChoiceLast(workflow_files) == workflow_files[Len(workflow_files)]

\* workflow_files[0]                               (line 186)
FallbackChoice(workflow_files) == workflow_files[1]

\* lines 180-190: find the template and load it
LoadTemplate(j) ==
    /\ pc[j] = "load"
    /\ \E listing \in Listings(wfdir.files) :
        LET workflow_files == SelectSeq(listing, EndsWithJson)
            canonical == wfdir.exists /\ CANONICAL \in wfdir.files
            workflow_path == IF canonical THEN CANONICAL ELSE FallbackChoice(workflow_files)
        IN
        IF ~canonical /\ ~wfdir.exists THEN
            /\ UNCHANGED <<job_id, workflow>>
            /\ Catch(j, Exc("FileNotFoundError", <<"No such file or directory">>, "load"))
        ELSE IF ~canonical /\ workflow_files = <<>> THEN
            /\ UNCHANGED <<job_id, workflow>>
            /\ Return(j, ErrorResponse(<<"No workflow files found">>, 500))
        ELSE IF TemplateContent(workflow_path).kind = "corrupt" THEN
            /\ UNCHANGED <<job_id, workflow>>
            /\ Catch(j, Exc("JSONDecodeError", <<"Expecting value">>, "load"))
        ELSE
            /\ workflow' = [workflow EXCEPT ![j] =
                    [path |-> workflow_path, doc |-> TemplateContent(workflow_path),
                     workflow_files |-> IF canonical THEN <<>> ELSE workflow_files]]
            /\ UNCHANGED job_id
            /\ Goto(j, "patch")
    /\ UNCHANGED <<health, envVars, request, paths, prompt_id, result, cursor, outputs, visited,
                   poll, calls>>

\* a patch that sets the three parameters whether the node has them or not
PatchNodeAdding(node, audio_path, transcript_path, image_path) ==
    IF "inputs" \in DOMAIN node THEN
        [node EXCEPT !.inputs =
            [p \in DOMAIN @ \cup {"audio", "text_file", "image"} |->
                IF p = "audio" THEN audio_path
                ELSE IF p = "text_file" THEN transcript_path
                ELSE IF p = "image" THEN image_path
                ELSE @[p]]]
    ELSE node

\* lines 195-201: one node of the workflow, patched
PatchNode(node, audio_path, transcript_path, image_path) ==
    IF "inputs" \in DOMAIN node THEN
        [node EXCEPT !.inputs =
            [p \in DOMAIN @ |->
                IF p = "audio" THEN audio_path
                ELSE IF p = "text_file" THEN transcript_path
                ELSE IF p = "image" THEN image_path
                ELSE @[p]]]
    ELSE node

\* lines 194-201: patch the resolved paths into the workflow
Patch(j) ==
    /\ pc[j] = "patch"
    /\ IF workflow[j].doc.kind # "mapping" THEN
            /\ UNCHANGED <<job_id, workflow>>
            /\ Catch(j, Exc("AttributeError", <<"object has no attribute items">>, "patch"))
       ELSE
            /\ workflow' = [workflow EXCEPT ![j].doc.nodes =
                    [n \in DOMAIN @ |-> PatchNode(@[n], paths[j][1], paths[j][2], paths[j][3])]]
            /\ UNCHANGED job_id
            /\ Goto(j, "submit")
    /\ UNCHANGED <<health, envVars, request, paths, prompt_id, result, cursor, outputs, visited,
                   poll, calls>>

\* ---------------------------------------------------------- submit_workflow

\* What the engine may answer to POST /prompt.
SubmitAnswers == {"http_error", "no_prompt_id", "accepted"}

\* a submit_workflow that does not look for the prompt_id
submit_workflow_unchecked(j, answer) ==
    IF answer = "http_error" THEN
        [ret |-> Unset, exc |-> Exc("HTTPError", <<"engine refused the prompt">>, "submit")]
    ELSE
        [ret |-> HandleOf(j), exc |-> NoExc]

\* submit_workflow(workflow), lines 91-111, for one answer of the engine
submit_workflow(j, answer) ==
    IF answer = "http_error" THEN
        [ret |-> Unset, exc |-> Exc("HTTPError", <<"engine refused the prompt">>, "submit")]
    ELSE IF answer = "no_prompt_id" THEN
        [ret |-> Unset, exc |-> Exc("ValueError", <<"No prompt_id in ComfyUI response">>, "submit")]
    ELSE
        [ret |-> HandleOf(j), exc |-> NoExc]

\* a frame that polls another handle than the one it was given
StartWaitOther(pid, poll_interval, max_wait) ==
    [IdlePoll EXCEPT !.state = "POLLING", !.at = "check", !.prompt_id = HandleOf("j2"),
                     !.poll_interval = poll_interval, !.max_wait = max_wait,
                     !.start_time = now]

\* line 115: the frame of wait_for_completion(prompt_id, poll_interval, max_wait)
StartWait(pid, poll_interval, max_wait) ==
    [IdlePoll EXCEPT !.state = "POLLING", !.at = "check", !.prompt_id = pid,
                     !.poll_interval = poll_interval, !.max_wait = max_wait,
                     !.start_time = now]

\* lines 204-207: submit the workflow and call wait_for_completion
Submit(j) ==
    /\ pc[j] = "submit"
    /\ \E answer \in SubmitAnswers :
        LET r == submit_workflow(j, answer) IN
        /\ calls' = [calls EXCEPT ![j] = Append(@, Call("post_prompt", <<<<answer>>>>))]
        /\ IF r.exc # NoExc THEN
                /\ UNCHANGED <<job_id, prompt_id, engine, poll>>
                /\ Catch(j, r.exc)
           ELSE
                /\ prompt_id' = [prompt_id EXCEPT ![j] = r.ret]
                /\ engine' = [engine EXCEPT ![r.ret] =
                        [status |-> "running", prompt |-> workflow[j].doc, outputs |-> <<>>]]
                /\ poll' = [poll EXCEPT ![j] =
                        StartWait(r.ret, PollIntervalDefault, MaxWaitDefault)]
                /\ UNCHANGED job_id
                /\ Goto(j, "wait")
    /\ UNCHANGED <<health, s3_client, fs, dirs, wfdir, s3, now, request, paths, workflow, result,
                   cursor, outputs, visited>>

\* ------------------------------------------------------- the engine's work

FileR == <<"r.png">>
FileV == <<"v.mp4">>

\* The outputs sections the engine reports: nodes in the order of the
\* answer, each with some of the categories, items with or without filename.
OutNone == <<>>
OutOne == <<[id |-> "9", out |-> [images |-> <<[filename |-> FileR]>>]]>>
OutMany ==
    <<[id |-> "9",
       out |-> [images |-> <<[filename |-> FileR], [subfolder |-> <<"tmp">>]>>,
                videos |-> <<[filename |-> FileV]>>]],
      [id |-> "12",
       out |-> [audio |-> <<[filename |-> FileR]>>, text |-> <<[filename |-> FileV]>>]]>>
EngineOutputs == {OutNone, OutOne, OutMany}

\* The file names an outputs section mentions.
FilesNamed(outs) ==
    {f \in {FileR, FileV} :
        \E n \in 1..Len(outs) : \E t \in DOMAIN outs[n].out : \E i \in 1..Len(outs[n].out[t]) :
            "filename" \in DOMAIN outs[n].out[t][i] /\ outs[n].out[t][i].filename = f}

RenderContent(h, name) == <<"render">> \o h \o name

\* The engine finishes a job: it writes some of the files it reports into
\* the output directory and lists the job in its history.
EngineComplete(h) ==
    /\ engine[h].status = "running"
    /\ \E outs \in EngineOutputs : \E written \in SUBSET FilesNamed(outs) :
        /\ engine' = [engine EXCEPT ![h].status = "done", ![h].outputs = outs]
        /\ fs' = [q \in DOMAIN fs \cup {PathJoin(OUTPUT_DIR, w) : w \in written} |->
                    IF \E w \in written : q = PathJoin(OUTPUT_DIR, w)
                    THEN RenderContent(h, Basename(q)) ELSE fs[q]]
    /\ UNCHANGED <<health, s3_client, dirs, wfdir, s3, now, jobVars, visited, poll, calls, raised>>

\* GET /history/<prompt_id>: the body of a successful answer
History(h) ==
    IF engine[h].status = "done" THEN (h :> [outputs |-> engine[h].outputs])
    ELSE << >>

\* ------------------------------------------------------ wait_for_completion

\* time.time() < max_wait: the start of the call forgotten
WithinBudgetOfClock(p, t) == t < p.max_wait

\* time.time() - start_time < max_wait             (line 117)
WithinBudget(p, t) == t - p.start_time < p.max_wait

\* line 117: the loop condition; line 133 when it fails
PollCheck(j) ==
    /\ poll[j].state = "POLLING"
    /\ poll[j].at = "check"
    /\ IF WithinBudget(poll[j], now)
       THEN poll' = [poll EXCEPT ![j].at = "query"]
       ELSE poll' = [poll EXCEPT ![j].state = "TIMED_OUT", ![j].at = "none",
                                 ![j].ended_at = now]
    /\ UNCHANGED <<health, envVars, jobVars, visited, calls, raised>>

\* line 123
HasOutputs(data, pid) == pid \in DOMAIN data /\ "outputs" \in DOMAIN data[pid]

\* an except branch that never comes back to the loop
OnQueryErrorHang(p) == [p EXCEPT !.at = "hang"]

\* an except branch that re-raises
OnQueryErrorRaise(p) == [p EXCEPT !.state = "RAISED", !.at = "none"]

\* lines 129-131: the except branch of the loop
OnQueryError(p) == [p EXCEPT !.at = "sleep"]

\* an answer that is looked at only if the deadline has not passed
OnAnswerBeforeDeadline(p, data, t) ==
    IF t - p.start_time >= p.max_wait
    THEN [p EXCEPT !.state = "TIMED_OUT", !.at = "none", !.ended_at = t]
    ELSE IF HasOutputs(data, p.prompt_id)
    THEN [p EXCEPT !.state = "DONE", !.at = "none", !.returned = data[p.prompt_id],
                   !.ended_at = t]
    ELSE [p EXCEPT !.at = "sleep"]

\* lines 121-127: the answer of a query that succeeded
OnAnswer(p, data, t) ==
    IF HasOutputs(data, p.prompt_id)
    THEN [p EXCEPT !.state = "DONE", !.at = "none", !.returned = data[p.prompt_id],
                   !.ended_at = t]
    ELSE [p EXCEPT !.at = "sleep"]

\* lines 119-125 and 129-130: one status query, answered or failed.  The
\* fields last, failed and reported record what the engine did, not what
\* the loop made of it.
PollQuery(j) ==
    /\ poll[j].state = "POLLING"
    /\ poll[j].at = "query"
    /\ \E took \in 0..MaxQueryTime : \E answered \in BOOLEAN :
        LET pid == poll[j].prompt_id
            done == engine[pid].status = "done"
            seen == [poll[j] EXCEPT
                        !.last = IF ~answered THEN "failed"
                                 ELSE IF done THEN "outputs" ELSE "empty",
                        !.failed = @ \/ ~answered,
                        !.reported = @ \/ (answered /\ done)]
        IN
        /\ now' = now + took
        /\ calls' = [calls EXCEPT ![j] = Append(@, Call("get_history", <<pid>>))]
        /\ poll' = [poll EXCEPT ![j] =
                IF answered THEN OnAnswer(seen, History(pid), now') ELSE OnQueryError(seen)]
    /\ UNCHANGED <<health, s3_client, fs, dirs, wfdir, s3, engine, jobVars, visited, raised>>

\* lines 127 and 131: time.sleep(poll_interval)
PollSleep(j) ==
    /\ poll[j].state = "POLLING"
    /\ poll[j].at = "sleep"
    /\ now' = now + poll[j].poll_interval
    /\ poll' = [poll EXCEPT ![j].at = "check"]
    /\ UNCHANGED <<health, s3_client, fs, dirs, wfdir, s3, engine, jobVars, visited, calls, raised>>

\* ------------------------------------------------------------ upload_output

PresignedUrl(bucket, key) == <<"https://">> \o bucket \o <<SL>> \o key

\* a key made of the whole local path, not of its basename
UploadKeyOfPath(prefix, local_path) ==
    IF prefix # <<>> THEN prefix \o <<SL>> \o local_path ELSE local_path

\* the key of an uploaded file                     (line 67)
UploadKey(prefix, local_path) ==
    IF prefix # <<>> THEN prefix \o <<SL>> \o Basename(local_path) ELSE Basename(local_path)

\* upload_output(local_path, target), lines 58-89.  io_ok: whether the
\* upload, or the rename, succeeds.
upload_output(local_path, target, io_ok) ==
    IF StartsWithS3(target) /\ s3_client THEN
        LET uri_parts == SplitOnce(ReplaceS3(target))
            bucket == uri_parts[1]
            prefix == IF Len(uri_parts) > 1 THEN uri_parts[2] ELSE <<>>
            key == UploadKey(prefix, local_path)
            call == Call("upload_file", <<local_path, bucket, key>>)
        IN  IF io_ok /\ local_path \in DOMAIN fs THEN
                [ret |-> PresignedUrl(bucket, key), exc |-> NoExc, fs |-> fs, dirs |-> dirs,
                 s3 |-> WriteFile(s3, <<bucket, key>>, fs[local_path]), calls |-> <<call>>]
            ELSE
                [ret |-> Unset, exc |-> Exc("S3UploadFailedError", <<"upload failed">>, "publish"),
                 fs |-> fs, dirs |-> dirs, s3 |-> s3, calls |-> <<call>>]
    ELSE
        LET out_path == PathJoin(target, Basename(local_path)) IN
        IF io_ok /\ local_path \in DOMAIN fs THEN
            [ret |-> out_path, exc |-> NoExc,
             fs |-> WriteFile(RemoveFile(fs, local_path), out_path, fs[local_path]),
             dirs |-> dirs \cup {target}, s3 |-> s3, calls |-> <<>>]
        ELSE
            [ret |-> Unset, exc |-> Exc("OSError", <<"rename failed">>, "publish"),
             fs |-> fs, dirs |-> dirs \cup {target}, s3 |-> s3, calls |-> <<>>]

\* ------------------------------------------------------- predict, continued

\* a wait that fails the same way whatever ended it
WaitErrorOfQuery(p) == Exc("ConnectionError", <<"status query failed">>, "wait")

\* what wait_for_completion raises               (line 133)
WaitError(p) ==
    IF p.state = "TIMED_OUT"
    THEN Exc("TimeoutError", <<"Workflow did not complete within max_wait seconds">>, "wait")
    ELSE Exc("ConnectionError", <<"status query failed">>, "wait")

\* line 207: wait_for_completion returns, or raises
AfterWait(j) ==
    /\ pc[j] = "wait"
    /\ poll[j].state \notin {"IDLE", "POLLING"}
    /\ IF poll[j].state # "DONE" THEN
            /\ UNCHANGED <<job_id, result, cursor>>
            /\ Catch(j, WaitError(poll[j]))
       ELSE
            /\ result' = [result EXCEPT ![j] = poll[j].returned]
            /\ cursor' = [cursor EXCEPT ![j] = <<1, 1, 0>>]
            /\ UNCHANGED job_id
            /\ Goto(j, "collect")
    /\ UNCHANGED <<health, envVars, request, paths, workflow, prompt_id, outputs, visited, poll, calls>>

\* for output_type in ["images", "videos", "audio"]   (line 215)
output_types == <<"images", "videos", "audio">>

\* node_outputs.get(output_type, [])                  (line 216)
ItemsOf(node_outputs, output_type) ==
    IF output_type \in DOMAIN node_outputs THEN node_outputs[output_type] ELSE <<>>

\* The item of the three loops (lines 213-216) at <<node, type, item>>.
ItemAt(outs, c) == ItemsOf(outs[c[1]].out, output_types[c[2]])[c[3]]

\* The places the three loops visit, and their order.
Places(outs) ==
    {c \in (1..Len(outs)) \X (1..Len(output_types)) \X (1..MaxItems) :
        c[3] <= Len(ItemsOf(outs[c[1]].out, output_types[c[2]]))}

Before(c, d) ==
    \/ c[1] < d[1]
    \/ c[1] = d[1] /\ c[2] < d[2]
    \/ c[1] = d[1] /\ c[2] = d[2] /\ c[3] < d[3]

Later(outs, c) == {d \in Places(outs) : Before(c, d)}

NextPlace(outs, c) ==
    CHOOSE d \in Later(outs, c) : \A e \in Later(outs, c) : e = d \/ Before(d, e)

\* output_item.get("filename")                        (line 217)
FilenameOf(item) == IF "filename" \in DOMAIN item THEN item.filename ELSE <<>>

\* if filename: without the test of the file
ShouldPublishUnchecked(filename, local_path) == filename # <<>>

\* if filename: ... if os.path.exists(local_path):   (lines 218-220)
ShouldPublish(filename, local_path) == filename # <<>> /\ Exists(local_path)

\* lines 217-226: the body of the loops, for the next item
Visit(j) ==
    /\ pc[j] = "collect"
    /\ Later(result[j].outputs, cursor[j]) # {}
    /\ \E io_ok \in BOOLEAN :
        LET c == NextPlace(result[j].outputs, cursor[j])
            output_item == ItemAt(result[j].outputs, c)
            filename == FilenameOf(output_item)
            local_path == PathJoin(OUTPUT_DIR, filename)
            found == ShouldPublish(filename, local_path)
            r == upload_output(local_path, request[j].data["output_s3_bucket"], io_ok)
        IN
        /\ cursor' = [cursor EXCEPT ![j] = c]
        /\ visited' = [visited EXCEPT ![j] = Append(@,
                [place |-> c, named |-> "filename" \in DOMAIN output_item,
                 exists |-> local_path \in DOMAIN fs])]
        /\ IF ~found THEN
                /\ UNCHANGED <<fs, dirs, s3, calls, outputs, job_id>>
                /\ Goto(j, "collect")
           ELSE
                /\ fs' = r.fs
                /\ dirs' = r.dirs
                /\ s3' = r.s3
                /\ calls' = [calls EXCEPT ![j] = @ \o r.calls]
                /\ UNCHANGED job_id
                /\ IF r.exc # NoExc
                   THEN /\ UNCHANGED outputs
                        /\ Catch(j, r.exc)
                   ELSE /\ outputs' = [outputs EXCEPT ![j] = Append(@,
                                [type |-> output_types[c[2]], filename |-> filename,
                                 url |-> r.ret])]
                        /\ Goto(j, "collect")
    /\ UNCHANGED <<health, s3_client, wfdir, engine, now, request, paths, workflow, prompt_id,
                   result, poll>>

\* lines 228-234: the loops are over
Finish(j) ==
    /\ pc[j] = "collect"
    /\ Later(result[j].outputs, cursor[j]) = {}
    /\ Return(j, CompletedResponse(job_id[j], prompt_id[j], outputs[j], now))
    /\ UNCHANGED <<health, envVars, request, job_id, paths, workflow, prompt_id, result, cursor,
                   outputs, visited, poll, calls>>

\* ------------------------------------------------------------- health_check

\* What the engine may answer to GET /system_stats: success, an error
\* status, or nothing at all.
StatsAnswers == {"ok", "http_error", "unreachable"}

StatsError(answer) ==
    IF answer = "http_error"
    THEN Exc("HTTPError", <<"500 Server Error">>, "health")
    ELSE Exc("ConnectionError", <<"connection refused">>, "health")

\* a health check that does not look at the engine's answer
health_check_blind(answer, t) ==
    [http |-> 200,
     body |-> [status |-> "healthy", comfyui |-> "connected", timestamp |-> t]]

\* health_check(), lines 136-153, for one answer of the engine at time t
health_check(answer, t) ==
    IF answer = "ok" THEN
        [http |-> 200,
         body |-> [status |-> "healthy", comfyui |-> "connected", timestamp |-> t]]
    ELSE
        [http |-> 503,
         body |-> [status |-> "unhealthy", error |-> StatsError(answer).msg,
                   timestamp |-> t]]

\* GET /health is served
HealthCheck ==
    /\ \E answer \in StatsAnswers :
        health' = [query |-> answer, response |-> health_check(answer, now)]
    /\ UNCHANGED <<envVars, jobVars, visited, poll, calls, raised>>

\* ----------------------------------------------------------- specifications

\* predict, once the request is there
Handle(j) ==
    \/ Validate(j)
    \/ Resolve(j)
    \/ LoadTemplate(j)
    \/ Patch(j)
    \/ Submit(j)
    \/ AfterWait(j)
    \/ Visit(j)
    \/ Finish(j)

Predict(j) ==
    \/ Receive(j)
    \/ Handle(j)

Poller(j) ==
    \/ PollCheck(j)
    \/ PollQuery(j)
    \/ PollSleep(j)

\* One job, from the request to the response.
Next ==
    \/ Predict("j1")
    \/ Poller("j1")
    \/ EngineComplete(HandleOf("j1"))

Spec == Init /\ [][Next]_vars

\* wait_for_completion alone: a call with any arguments, at any time, for a
\* job the engine is running.  The loop always takes its next step.

InitPoller ==
    /\ s3_client = TRUE
    /\ fs = InitFs
    /\ dirs = InitDirs
    /\ wfdir = [exists |-> TRUE, files |-> {CANONICAL, NameA}]
    /\ s3 = InitS3
    /\ engine = [h \in Handles |->
            IF h = HandleOf("j1")
            THEN [status |-> "running", prompt |-> WFcanon, outputs |-> <<>>]
            ELSE NoEngineJob]
    /\ now \in 0..MaxStartTime
    /\ InitLocals
    /\ pc = [j \in AllJobs |-> IF j = "j1" THEN "called" ELSE "idle"]
    /\ \E poll_interval \in 1..MaxPollInterval : \E max_wait \in 0..MaxWaitArg :
        poll = [j \in AllJobs |->
            IF j = "j1" THEN StartWait(HandleOf(j), poll_interval, max_wait) ELSE IdlePoll]

NextPoller ==
    \/ Poller("j1")
    \/ EngineComplete(HandleOf("j1"))

PollerSpec == InitPoller /\ [][NextPoller]_vars /\ WF_vars(Poller("j1"))

\* The service with its health endpoint: one job, of a few complete
\* requests, and health checks at any time.

HealthRequests ==
    {[kind |-> "object",
      data |-> [audio_s3 |-> a, transcript_s3 |-> RefLocal, image_s3 |-> RefI,
                output_s3_bucket |-> d]] :
        a \in {RefKey, RefMissing}, d \in {DestPrefix, DestDir}}

InitHealth ==
    /\ Init
    /\ s3_client = TRUE
    /\ wfdir = [exists |-> TRUE, files |-> {CANONICAL, NameA}]

NextHealth ==
    \/ ReceiveFrom("j1", HealthRequests)
    \/ Handle("j1")
    \/ Poller("j1")
    \/ EngineComplete(HandleOf("j1"))
    \/ HealthCheck

HealthSpec == InitHealth /\ [][NextHealth]_vars

\* Two jobs in flight at the same time, their steps interleaved in any
\* order.  Each has remote audio whose key is its own, and local transcript
\* and image.  The first job is followed to its response, the second up to
\* the submission of its workflow.

ConcRequests(j) ==
    {[kind |-> "object",
      data |-> [audio_s3 |-> IF j = "j1" THEN RefKey ELSE a,
                transcript_s3 |-> RefLocal, image_s3 |-> RefLocal,
                output_s3_bucket |-> IF j = "j1" THEN DestBucket ELSE DestPrefix]] :
        a \in {RefDeep, RefI}}

InitConc ==
    /\ Init
    /\ s3_client = TRUE
    /\ wfdir = [exists |-> TRUE, files |-> {CANONICAL, NameA}]

\* predict up to line 204
UpToSubmit(j) ==
    \/ Validate(j)
    \/ Resolve(j)
    \/ LoadTemplate(j)
    \/ Patch(j)
    \/ Submit(j)

\* predict from line 207 on
FromWait(j) ==
    \/ AfterWait(j)
    \/ Visit(j)
    \/ Finish(j)

NextConc ==
    \/ \E j \in AllJobs : ReceiveFrom(j, ConcRequests(j))
    \/ \E j \in AllJobs : UpToSubmit(j)
    \/ FromWait("j1")
    \/ Poller("j1")
    \/ EngineComplete(HandleOf("j1"))

ConcSpec == InitConc /\ [][NextConc]_vars

\* ---------------------------------------------------------------- the claims

RequiredFields == {"audio_s3", "transcript_s3", "image_s3", "output_s3_bucket"}
LacksRequired(data) == \E f \in RequiredFields : f \notin DOMAIN data
Complete(j) == request[j].kind = "object" /\ ~LacksRequired(request[j].data)
Submitted(j) == \E k \in 1..Len(calls[j]) : calls[j][k].op = "post_prompt"
StatusOf(resp) == IF "status" \in DOMAIN resp.body THEN resp.body.status ELSE "absent"

\* The job identifier a response is to carry: the request's job_id when
\* supplied, else the generated one, unset when the body was never read.
ExpectedJobId(j) ==
    IF request[j].kind = "object" /\ DOMAIN request[j].data # {}
    THEN IF "job_id" \in DOMAIN request[j].data
         THEN request[j].data["job_id"] ELSE NewJobId(j)
    ELSE None

IsFailedResult(resp, jid) ==
    /\ resp.http = 500
    /\ {"job_id", "status", "error"} \subseteq DOMAIN resp.body
    /\ resp.body.status = "FAILED"
    /\ resp.body.job_id = jid

\* C1: a request whose JSON object lacks a required field is answered with
\* HTTP 400, and while it is handled nothing is resolved, downloaded,
\* submitted, polled or uploaded: the handler never leaves the validation
\* and the file system, the store and the engine are as they were.
C1_MissingFieldRejected ==
    \A j \in AllJobs :
        request[j].kind = "object" /\ LacksRequired(request[j].data) =>
            /\ pc[j] \in {"validate", "done"}
            /\ pc[j] = "done" => response[j].http = 400
            /\ calls[j] = <<>>
            /\ paths[j] = <<>>
            /\ poll[j] = IdlePoll
            /\ prompt_id[j] = Unset
            /\ engine[HandleOf(j)] = NoEngineJob
            /\ fs = InitFs /\ dirs = InitDirs /\ s3 = InitS3

C1_Witness ==
    \E j \in AllJobs :
        /\ pc[j] = "done"
        /\ request[j].kind = "object"
        /\ {"audio_s3", "transcript_s3", "image_s3"} \subseteq DOMAIN request[j].data
        /\ "output_s3_bucket" \notin DOMAIN request[j].data
        /\ response[j].http = 400

\* A step of the handler failed: the body could not be read, or a complete
\* request did not end with the completed result.
StepFailed(j) ==
    /\ pc[j] = "done"
    /\ \/ request[j].kind \in {"malformed", "nonobject"}
       \/ Complete(j) /\ response[j].http # 200

\* C2: whatever step fails (reading the body, input resolution, template
\* loading, patching, submission, polling, publishing), the response is a
\* FAILED job result with HTTP 500, the error message and the job identifier.
C2_FailureIsFailedResult ==
    \A j \in AllJobs : StepFailed(j) => IsFailedResult(response[j], ExpectedJobId(j))

\* C3: every response carries job_id, status and timestamp.
C3_UniformShape ==
    \A j \in AllJobs :
        pc[j] = "done" => {"job_id", "status", "timestamp"} \subseteq DOMAIN response[j].body

\* C4: HTTP 200 exactly when the status is COMPLETED, 500 exactly when it
\* is FAILED, 400 exactly when a required field was missing.
C4_HttpAgreesWithStatus ==
    \A j \in AllJobs :
        pc[j] = "done" =>
            /\ response[j].http = 200 <=> StatusOf(response[j]) = "COMPLETED"
            /\ response[j].http = 500 <=> StatusOf(response[j]) = "FAILED"
            /\ response[j].http = 400 <=>
                   (request[j].kind = "object" /\ LacksRequired(request[j].data))

\* C5: a call of wait_for_completion that ends without any query having
\* reported outputs ends with TimeoutError, at a time when at least max_wait
\* has passed since the call started; and a call to which no query ever
\* reports outputs does end so.
C5_TimeoutNeverEarly ==
    /\ [](\A j \in AllJobs :
            /\ (poll[j].state \notin {"IDLE", "POLLING"} /\ ~poll[j].reported)
                    => poll[j].state = "TIMED_OUT"
            /\ poll[j].state = "TIMED_OUT"
                    => /\ poll[j].ended_at - poll[j].start_time >= poll[j].max_wait
                       /\ now - poll[j].start_time >= poll[j].max_wait)
    /\ ([](~poll["j1"].reported) => <>(poll["j1"].state = "TIMED_OUT"))

C5_Witness ==
    /\ poll["j1"].state = "TIMED_OUT"
    /\ poll["j1"].start_time > 0
    /\ poll["j1"].max_wait = MaxWaitArg
    /\ poll["j1"].last = "empty"

\* C6: a status query that fails leaves the call in POLLING, about to sleep
\* poll_interval; a query answered with outputs for the handle ends the call
\* with these outputs, whatever failed before; and the call never ends with
\* anything but a result or TimeoutError.
C6_QueryFailureTolerated ==
    /\ [][\A j \in AllJobs :
            (poll[j].at = "query" /\ poll'[j] # poll[j]) =>
                /\ poll'[j].last = "failed" =>
                        (poll'[j].state = "POLLING" /\ poll'[j].at = "sleep")
                /\ poll'[j].last = "outputs" =>
                        /\ poll'[j].state = "DONE"
                        /\ poll'[j].returned.outputs = engine[poll[j].prompt_id].outputs]_vars
    /\ [][\A j \in AllJobs :
            (poll[j].at = "sleep" /\ poll'[j] # poll[j]) =>
                /\ now' = now + poll[j].poll_interval
                /\ poll'[j].state = "POLLING" /\ poll'[j].at = "check"]_vars
    /\ [](\A j \in AllJobs : poll[j].state \in {"IDLE", "POLLING", "DONE", "TIMED_OUT"})

C6_Witness ==
    /\ poll["j1"].state = "DONE"
    /\ poll["j1"].failed
    /\ poll["j1"].returned.outputs = OutOne

JsonFiles(d) == {n \in d.files : n[Len(n)] = ".json"}
CanonicalThere == wfdir.exists /\ CANONICAL \in wfdir.files

\* The names of the templates in the order of their names.
SortedNames == <<NameA, NameB, NameC, NameD, NameTxt, CANONICAL>>
SortedFirst(F) ==
    SortedNames[Min({i \in 1..Len(SortedNames) : SortedNames[i] \in F})]

\* The job is past the loading of the template, which found the canonical
\* template absent and at least one alternate.
UsedFallback(j) ==
    /\ Complete(j)
    /\ Len(paths[j]) = 3
    /\ pc[j] # "load"
    /\ ~CanonicalThere
    /\ wfdir.exists /\ JsonFiles(wfdir) # {}

\* C7 as stated: the alternate used is the first in the order of the names.
C7_SortedFirstAlternate ==
    \A j \in AllJobs :
        UsedFallback(j) =>
            /\ workflow[j] # NoWorkflow => workflow[j].path = SortedFirst(JsonFiles(wfdir))
            /\ workflow[j] = NoWorkflow => raised[j].at = "load"

\* C7, amended: the alternate used is the first .json file of the directory
\* listing, in the order the listing has; the job never ends with "No
\* workflow files found", and once the file is read as a mapping of nodes the
\* job does not end without having submitted the workflow.
C7_FirstListedAlternate ==
    \A j \in AllJobs :
        UsedFallback(j) =>
            /\ workflow[j] # NoWorkflow =>
                /\ workflow[j].workflow_files # <<>>
                /\ {workflow[j].workflow_files[k] : k \in 1..Len(workflow[j].workflow_files)}
                        = JsonFiles(wfdir)
                /\ workflow[j].path = workflow[j].workflow_files[1]
            /\ workflow[j] = NoWorkflow => raised[j].at = "load"
            /\ (pc[j] = "done" /\ workflow[j].doc.kind = "mapping") => Submitted(j)

C7_Witness ==
    \E j \in AllJobs :
        /\ UsedFallback(j)
        /\ pc[j] = "wait"
        /\ workflow[j].workflow_files = <<NameB, NameA>>
        /\ workflow[j].path = NameB
        /\ engine[HandleOf(j)].prompt.nodes["7"].inputs.audio = paths[j][1]

\* C8: with the canonical template absent and no alternate, the job ends
\* with a FAILED job result carrying the job identifier, nothing submitted.
C8_NoTemplateIsFailed ==
    \A j \in AllJobs :
        (/\ Complete(j) /\ Len(paths[j]) = 3 /\ pc[j] = "done"
         /\ ~CanonicalThere
         /\ JsonFiles(wfdir) = {})
            => /\ IsFailedResult(response[j], ExpectedJobId(j))
               /\ ~Submitted(j)

\* The items of an outputs section in the order of the three loops.
CategoryItems(node, t) ==
    IF t \in DOMAIN node.out
    THEN [i \in 1..Len(node.out[t]) |-> [type |-> t, item |-> node.out[t][i]]]
    ELSE <<>>
NodeItems(node) ==
    CategoryItems(node, "images") \o CategoryItems(node, "videos") \o CategoryItems(node, "audio")
RECURSIVE FlatItems(_)
FlatItems(outs) ==
    IF outs = <<>> THEN <<>> ELSE NodeItems(Head(outs)) \o FlatItems(Tail(outs))

\* The entries due: one for each item that had a filename and whose file
\* was there when the item was visited.
RECURSIVE EntriesDue(_, _)
EntriesDue(flat, seen) ==
    IF flat = <<>> \/ seen = <<>> THEN <<>>
    ELSE (IF Head(seen).named /\ Head(seen).exists
          THEN <<[type |-> Head(flat).type, filename |-> Head(flat).item.filename]>>
          ELSE <<>>) \o EntriesDue(Tail(flat), Tail(seen))

\* C9: a COMPLETED result lists, in the order of the loops, one entry with
\* type, filename and url for each item that had a filename and whose file
\* existed when visited, and nothing else; and publishing fails a job only
\* at an item whose file was there.
C9_ArtifactList ==
    \A j \in AllJobs :
        /\ response[j].http = 200 =>
            LET outs == response[j].body.outputs
                flat == FlatItems(result[j].outputs)
            IN  /\ Len(visited[j]) = Len(flat)
                /\ [k \in 1..Len(outs) |-> [type |-> outs[k].type, filename |-> outs[k].filename]]
                        = EntriesDue(flat, visited[j])
                /\ \A k \in 1..Len(outs) :
                        DOMAIN outs[k] = {"type", "filename", "url"} /\ outs[k].url # Unset
        /\ raised[j].at = "publish" =>
            /\ visited[j] # <<>>
            /\ visited[j][Len(visited[j])].named /\ visited[j][Len(visited[j])].exists

C9_Witness ==
    \E j \in AllJobs :
        /\ response[j].http = 200
        /\ result[j].outputs = OutMany
        /\ Len(response[j].body.outputs) = 2
        /\ response[j].body.outputs[2].type = "audio"

\* A COMPLETED result without artifacts, for a job whose items had no file.
C9_EmptyWitness ==
    \E j \in AllJobs :
        /\ response[j].http = 200
        /\ result[j].outputs = OutOne
        /\ response[j].body.outputs = <<>>

IsRemote(uri) == Len(uri) > 0 /\ uri[1] = S3
SegmentsAfterBucket(uri) == Cardinality({i \in 3..Len(uri) : uri[i] # SL})

LastSegment(uri) == IF uri[Len(uri)] = SL THEN <<>> ELSE <<uri[Len(uri)]>>

\* The first call of resolve_input_path, for audio_s3, was made.
AudioTried(j) ==
    /\ Complete(j)
    /\ pc[j] \notin {"idle", "validate", "resolve_audio"}
AudioRef(j) == request[j].data["audio_s3"]

\* C10 as stated: a remote reference with no or with more than one path
\* segment after the bucket fails as malformed, nothing fetched.
C10_ExactlyOneSegment ==
    \A j \in AllJobs :
        (AudioTried(j) /\ s3_client /\ IsRemote(AudioRef(j))
            /\ SegmentsAfterBucket(AudioRef(j)) # 1)
            => /\ raised[j].type = "ValueError" /\ raised[j].at = "resolve"
               /\ calls[j] = <<>>

\* C10, amended: a remote reference fails as malformed, nothing fetched,
\* exactly when no slash follows the bucket; otherwise the key is all that
\* follows the first slash after the bucket, however many segments it has,
\* and that object is fetched into the staging directory under the last
\* segment's name.
C10_KeyIsRestAfterBucket ==
    \A j \in AllJobs :
        (AudioTried(j) /\ s3_client /\ IsRemote(AudioRef(j))) =>
            LET uri == AudioRef(j) IN
            IF Len(uri) <= 2 THEN
                /\ raised[j].type = "ValueError" /\ raised[j].at = "resolve"
                /\ calls[j] = <<>>
                /\ paths[j] = <<>>
            ELSE
                /\ calls[j] # <<>>
                /\ calls[j][1] = Call("download_file",
                        <<<<uri[2]>>, SubSeq(uri, 4, Len(uri)),
                          INPUT_DIR \o <<SL>> \o LastSegment(uri)>>)
                /\ paths[j] # <<>> => paths[j][1] = INPUT_DIR \o <<SL>> \o LastSegment(uri)
                /\ paths[j] = <<>> => raised[j].type = "ClientError"

C10_Witness ==
    \E j \in AllJobs :
        /\ AudioTried(j) /\ s3_client
        /\ AudioRef(j) = RefDeep
        /\ paths[j] # <<>>
        /\ paths[j][1] = <<SL, "app", SL, "inputs", SL, "k">>
        /\ fs[paths[j][1]] = ObjContent(<<"b">>, <<"d", SL, "k">>)

ResolveLabels == {"resolve_audio", "resolve_transcript", "resolve_image"}

\* C11: a call of resolve_input_path on a reference that is no s3:// URI
\* creates, fetches and changes nothing; when the path exists it returns the
\* path as it is and the handler goes on to its next step, when it does not
\* exist the job ends as a FAILED result with FileNotFoundError.
C11_LocalPathIdentity ==
    [][\A j \in AllJobs :
        (/\ pc[j] \in ResolveLabels
         /\ pc'[j] # pc[j]
         /\ ~IsRemote(request[j].data[ResolveField(pc[j])])) =>
            LET ref == request[j].data[ResolveField(pc[j])] IN
            /\ fs' = fs /\ dirs' = dirs /\ s3' = s3
            /\ calls'[j] = calls[j]
            /\ IF ref \in DOMAIN fs \/ ref \in dirs THEN
                    /\ paths'[j] = Append(paths[j], ref)
                    /\ pc'[j] = AfterResolve(pc[j])
                    /\ raised'[j] = NoExc
                    /\ response'[j] = NoResponse
               ELSE
                    /\ paths'[j] = paths[j]
                    /\ pc'[j] = "done"
                    /\ raised'[j].type = "FileNotFoundError"
                    /\ IsFailedResult(response'[j], ExpectedJobId(j))]_vars

\* All three inputs were local paths that exist.
C11_Witness ==
    \E j \in AllJobs :
        /\ pc[j] = "load"
        /\ paths[j] = <<RefLocal, RefLocal, RefLocal>>
        /\ fs = InitFs /\ dirs = InitDirs /\ calls[j] = <<>>

\* A local path that does not exist ended the job.
C11_MissingWitness ==
    \E j \in AllJobs :
        /\ pc[j] = "done"
        /\ Complete(j) /\ AudioRef(j) = RefMissing
        /\ raised[j].type = "FileNotFoundError"
        /\ response[j].body.status = "FAILED"

DestOf(j) == request[j].data["output_s3_bucket"]
BucketOfDest(dest) == <<dest[2]>>
PrefixOfDest(dest) == SubSeq(dest, 4, Len(dest))
ExpectedKey(dest, name) ==
    IF PrefixOfDest(dest) = <<>> THEN name ELSE PrefixOfDest(dest) \o <<SL>> \o name
UploadCalls(j) == SelectSeq(calls[j], LAMBDA c : c.op = "upload_file")
OutputPath(name) == OUTPUT_DIR \o <<SL>> \o name

\* C12: with a storage client and an s3:// destination, every upload of a
\* job goes to the destination's bucket under the key prefix/basename (the
\* basename alone without a prefix); every published entry's URL names that
\* key, the object holds the local file's content and the local file is
\* still in the output directory; and the store has gained exactly one
\* object per distinct file published, however often a file was published.
C12_RemotePublishByBasename ==
    \A j \in AllJobs :
        (Complete(j) /\ s3_client /\ IsRemote(DestOf(j))) =>
            LET dest == DestOf(j)
                bucket == BucketOfDest(dest)
                ups == UploadCalls(j)
            IN  /\ \A k \in 1..Len(ups) :
                    /\ ups[k].args[2] = bucket
                    /\ ups[k].args[3] =
                            ExpectedKey(dest, <<ups[k].args[1][Len(ups[k].args[1])]>>)
                /\ \A k \in 1..Len(outputs[j]) :
                    LET name == outputs[j][k].filename
                        key == ExpectedKey(dest, name)
                    IN  /\ outputs[j][k].url = <<"https://">> \o bucket \o <<SL>> \o key
                        /\ <<bucket, key>> \in DOMAIN s3
                        /\ OutputPath(name) \in DOMAIN fs
                        /\ s3[<<bucket, key>>] = fs[OutputPath(name)]
                /\ DOMAIN s3 \ DOMAIN InitS3 =
                        {<<bucket, ExpectedKey(dest, outputs[j][k].filename)>> :
                            k \in 1..Len(outputs[j])}
                /\ Len(outputs[j]) <= Len(ups)

\* The same file was published twice, and another once: two objects.
C12_Witness ==
    \E j \in AllJobs :
        /\ Complete(j) /\ s3_client /\ DestOf(j) = DestPrefix
        /\ response[j].http = 200
        /\ Len(outputs[j]) = 3
        /\ outputs[j][1].filename = FileR /\ outputs[j][3].filename = FileR
        /\ outputs[j][1].url = outputs[j][3].url
        /\ outputs[j][1].url = <<"https://", "out", SL, "pre", SL, "r.png">>
        /\ Cardinality(DOMAIN s3 \ DOMAIN InitS3) = 2
        /\ Len(UploadCalls(j)) = 3

\* The handler of j published a file in this step: upload_output returned.
Published(j) == Len(outputs'[j]) = Len(outputs[j]) + 1
LastName(j) == outputs'[j][Len(outputs'[j])].filename

\* C13 as stated: a successful upload_output to a local directory leaves the
\* file at destination/basename, which it returns, and no longer at its
\* source path, and the destination directory exists.
C13_LocalPublishMoves ==
    [][\A j \in AllJobs :
        (Published(j) /\ ~IsRemote(DestOf(j))) =>
            LET src == OutputPath(LastName(j))
                out == DestOf(j) \o <<SL>> \o LastName(j)
            IN  /\ outputs'[j][Len(outputs'[j])].url = out
                /\ out \in DOMAIN fs' /\ fs'[out] = fs[src]
                /\ src \notin DOMAIN fs'
                /\ DestOf(j) \in dirs']_vars

\* C13, amended: the file is at destination/basename with the content it
\* had, that path is returned and the destination directory exists; the file
\* is gone from its source path unless destination/basename is the source
\* path itself, and then nothing has changed.  No other file, no object of
\* the store and no call is involved.
C13_LocalPublishRenames ==
    [][\A j \in AllJobs :
        (Published(j) /\ ~IsRemote(DestOf(j))) =>
            LET src == OutputPath(LastName(j))
                out == DestOf(j) \o <<SL>> \o LastName(j)
            IN  /\ outputs'[j][Len(outputs'[j])].url = out
                /\ out \in DOMAIN fs' /\ fs'[out] = fs[src]
                /\ out # src => src \notin DOMAIN fs'
                /\ out = src => fs' = fs
                /\ DOMAIN fs' \ {out} = DOMAIN fs \ {src, out}
                /\ \A q \in DOMAIN fs' \ {out} : fs'[q] = fs[q]
                /\ DestOf(j) \in dirs'
                /\ s3' = s3 /\ calls'[j] = calls[j]]_vars

\* A file was moved into a directory that did not exist before.
C13_Witness ==
    \E j \in AllJobs :
        /\ Complete(j) /\ DestOf(j) = DestDir
        /\ outputs[j] # <<>>
        /\ outputs[j][1].url = <<SL, "res", SL, "r.png">>
        /\ <<SL, "res", SL, "r.png">> \in DOMAIN fs
        /\ OutputPath(FileR) \notin DOMAIN fs
        /\ DestDir \in dirs /\ DestDir \notin InitDirs

\* A file was published into the directory it was in.
C13_SamePathWitness ==
    \E j \in AllJobs :
        /\ Complete(j) /\ DestOf(j) = DestOut
        /\ outputs[j] # <<>>
        /\ outputs[j][1].url = OutputPath(FileR)
        /\ OutputPath(FileR) \in DOMAIN fs

PostCalls(j) == SelectSeq(calls[j], LAMBDA c : c.op = "post_prompt")
HistoryCalls(j) == SelectSeq(calls[j], LAMBDA c : c.op = "get_history")
\* What the engine answered to the job's POST /prompt.
AnswerOf(j) == PostCalls(j)[1].args[1][1]

\* C14: the handler has a prompt_id, and a poll under way for it, exactly
\* when the engine accepted the prompt and named a prompt_id; a refused
\* prompt ends the job with HTTPError, an answer without prompt_id with
\* ValueError, and in both cases no poll was started and no status query
\* made.
C14_SubmitOutcome ==
    \A j \in AllJobs :
        PostCalls(j) # <<>> =>
            /\ AnswerOf(j) = "accepted" <=> prompt_id[j] # Unset
            /\ prompt_id[j] # Unset =>
                /\ poll[j].state # "IDLE"
                /\ poll[j].prompt_id = prompt_id[j]
                /\ engine[prompt_id[j]].status # "none"
            /\ AnswerOf(j) = "http_error" =>
                raised[j] = Exc("HTTPError", <<"engine refused the prompt">>, "submit")
            /\ AnswerOf(j) = "no_prompt_id" =>
                raised[j] = Exc("ValueError", <<"No prompt_id in ComfyUI response">>, "submit")
            /\ AnswerOf(j) # "accepted" =>
                /\ pc[j] = "done"
                /\ IsFailedResult(response[j], ExpectedJobId(j))
                /\ response[j].body.error = raised[j].msg
                /\ poll[j] = IdlePoll
                /\ HistoryCalls(j) = <<>>
                /\ Len(calls[j]) > 0 /\ calls[j][Len(calls[j])].op = "post_prompt"

\* The engine answered with success but named no prompt_id.
C14_Witness ==
    \E j \in AllJobs :
        /\ PostCalls(j) # <<>> /\ AnswerOf(j) = "no_prompt_id"
        /\ raised[j].type = "ValueError" /\ raised[j].at = "submit"
        /\ response[j].http = 500
        /\ poll[j] = IdlePoll

\* C15: the health endpoint answers 200 and healthy exactly when the
\* engine's status query succeeded, and 503, unhealthy and the error's
\* message when it failed in either way; and a step that serves a health
\* check changes nothing but that answer: no job, no file, no object of the
\* store, no job of the engine, not the clock.
C15_HealthCheck ==
    /\ [](health # NoHealth =>
            /\ health.response.http \in {200, 503}
            /\ health.response.http = 200 <=> health.query = "ok"
            /\ health.response.http = 200 <=> health.response.body.status = "healthy"
            /\ health.response.http = 503 <=> health.response.body.status = "unhealthy"
            /\ health.query = "http_error" =>
                    health.response.body.error = <<"500 Server Error">>
            /\ health.query = "unreachable" =>
                    health.response.body.error = <<"connection refused">>)
    /\ [][health' # health =>
            UNCHANGED <<s3_client, fs, dirs, wfdir, s3, engine, now, pc, request, job_id,
                        paths, workflow, prompt_id, result, cursor, outputs, response,
                        visited, poll, calls, raised>>]_vars

\* An unhealthy answer while a job was being polled, the job then completed.
C15_Witness ==
    /\ health.query = "unreachable"
    /\ health.response.http = 503
    /\ health.response.body.timestamp > 0
    /\ response["j1"].http = 200
    /\ outputs["j1"] # <<>>

PatchedParams == {"audio", "text_file", "image"}
\* The parameters of a template's nodes that the patch step is to set.
ParamsToPatch(nodes) ==
    {<<n, q>> \in (DOMAIN nodes) \X PatchedParams :
        "inputs" \in DOMAIN nodes[n] /\ q \in DOMAIN nodes[n].inputs}
\* The job has a workflow that went through the patch step.
Patched(j) ==
    /\ workflow[j].doc.kind = "mapping"
    /\ pc[j] \in {"submit", "wait", "collect", "done"}

\* C16: after the patch step the workflow has the nodes of the template as
\* loaded, each with the fields and the parameters it had; audio, text_file
\* and image hold the resolved audio, transcript and image path, every other
\* parameter its value; a template without the three parameters is the
\* workflow as loaded; and what the engine is sent is this workflow.  The
\* patch step fails for no template that is a mapping of nodes.
C16_PatchFrame ==
    \A j \in AllJobs :
        /\ Patched(j) =>
            LET orig == TemplateContent(workflow[j].path).nodes
                new == workflow[j].doc.nodes
            IN  /\ DOMAIN new = DOMAIN orig
                /\ \A n \in DOMAIN orig :
                    /\ DOMAIN new[n] = DOMAIN orig[n]
                    /\ new[n].class_type = orig[n].class_type
                    /\ "inputs" \in DOMAIN orig[n] =>
                        /\ DOMAIN new[n].inputs = DOMAIN orig[n].inputs
                        /\ \A q \in DOMAIN orig[n].inputs :
                            new[n].inputs[q] =
                                CASE q = "audio" -> paths[j][1]
                                  [] q = "text_file" -> paths[j][2]
                                  [] q = "image" -> paths[j][3]
                                  [] OTHER -> orig[n].inputs[q]
                /\ ParamsToPatch(orig) = {} => workflow[j].doc = TemplateContent(workflow[j].path)
                /\ engine[HandleOf(j)].status # "none" =>
                        engine[HandleOf(j)].prompt = workflow[j].doc
        /\ raised[j].at = "patch" => workflow[j].doc.kind # "mapping"

\* The canonical template was submitted with the three paths patched in.
C16_Witness ==
    \E j \in AllJobs :
        /\ Patched(j) /\ workflow[j].path = CANONICAL
        /\ engine[HandleOf(j)].status = "running"
        /\ engine[HandleOf(j)].prompt.nodes["1"].inputs =
                [audio |-> <<SL, "app", SL, "inputs", SL, "k">>, seed |-> <<"7">>]
        /\ engine[HandleOf(j)].prompt.nodes["2"].inputs =
                [text_file |-> RefLocal, image |-> <<SL, "app", SL, "inputs", SL, "i">>,
                 model |-> <<"1">>]
        /\ engine[HandleOf(j)].prompt.nodes["3"] = [class_type |-> <<"SaveVideo">>]

\* A template without the three parameters was submitted as loaded.
C16_UnchangedWitness ==
    \E j \in AllJobs :
        /\ Patched(j) /\ workflow[j].path = NameA
        /\ engine[HandleOf(j)].status = "running"
        /\ engine[HandleOf(j)].prompt = WFplain

\* The place of a call in the order of the steps.
StepRank(op) ==
    CASE op = "download_file" -> 1
      [] op = "post_prompt" -> 2
      [] op = "get_history" -> 3
      [] op = "upload_file" -> 4

\* C17: the job's calls come in the order downloads, submission, status
\* queries, uploads; the workflow is submitted only with all three inputs
\* resolved and the template loaded and patched; every status query asks for
\* the handle the submission returned; an output item is visited or
\* published only after the poller returned the engine's completed record
\* for that handle, which is the result walked; and a COMPLETED response
\* carries that handle as prompt_id.
C17_StepOrder ==
    \A j \in AllJobs :
        /\ \A a, b \in 1..Len(calls[j]) :
                a < b => StepRank(calls[j][a].op) <= StepRank(calls[j][b].op)
        /\ Submitted(j) =>
            /\ Len(paths[j]) = 3
            /\ Patched(j)
        /\ poll[j].state # "IDLE" =>
            /\ Submitted(j) /\ AnswerOf(j) = "accepted"
            /\ poll[j].prompt_id = prompt_id[j]
            /\ prompt_id[j] = HandleOf(j)
        /\ \A k \in 1..Len(HistoryCalls(j)) : HistoryCalls(j)[k].args = <<prompt_id[j]>>
        /\ (visited[j] # <<>> \/ outputs[j] # <<>> \/ UploadCalls(j) # <<>>
                \/ result[j] # NoResult) =>
            /\ poll[j].state = "DONE" /\ poll[j].reported
            /\ result[j] = poll[j].returned
            /\ engine[prompt_id[j]].status = "done"
            /\ result[j].outputs = engine[prompt_id[j]].outputs
        /\ response[j].http = 200 =>
            /\ response[j].body.prompt_id = HandleOf(j)
            /\ response[j].body.prompt_id = poll[j].prompt_id
            /\ poll[j].state = "DONE"

\* A job that went through all the steps, with calls of all four kinds.
C17_Witness ==
    \E j \in AllJobs :
        /\ response[j].http = 200
        /\ outputs[j] # <<>>
        /\ {calls[j][k].op : k \in 1..Len(calls[j])} =
                {"download_file", "post_prompt", "get_history", "upload_file"}
        /\ Len(HistoryCalls(j)) > 1

DownloadCalls(j) == SelectSeq(calls[j], LAMBDA c : c.op = "download_file")
\* The calls of resolve_input_path the handler has made so far.
ResolvesMade(j) ==
    IF ~Complete(j) THEN 0
    ELSE Len(paths[j]) + (IF raised[j].at = "resolve" THEN 1 ELSE 0)
FieldRef(j, k) == request[j].data[required_fields[k]]
\* The items visited that had a name and a file: the ones to publish.
VisitedToPublish(j) ==
    {k \in 1..Len(visited[j]) : visited[j][k].named /\ visited[j][k].exists}

\* C18: a job fetches at most one object per remote input it resolved,
\* submits at most once, visits the output items one after the other, each
\* once, and uploads at most once per item; the first failure of a resolve,
\* submit or publish step is the job's FAILED result, with nothing of a
\* later step done; and once the handler has answered it does nothing more.
C18_NothingRetried ==
    /\ [](\A j \in AllJobs :
            /\ Len(DownloadCalls(j)) <=
                    Cardinality({k \in 1..ResolvesMade(j) : IsRemote(FieldRef(j, k))})
            /\ Len(PostCalls(j)) <= 1
            /\ \A a, b \in 1..Len(visited[j]) :
                    a < b => Before(visited[j][a].place, visited[j][b].place)
            /\ Len(UploadCalls(j)) <= Cardinality(VisitedToPublish(j))
            /\ Len(outputs[j]) <= Cardinality(VisitedToPublish(j))
            /\ raised[j].at \in {"resolve", "submit", "publish"} =>
                /\ pc[j] = "done"
                /\ IsFailedResult(response[j], ExpectedJobId(j))
                /\ response[j].body.error = raised[j].msg
            /\ raised[j].at = "resolve" =>
                /\ workflow[j] = NoWorkflow /\ PostCalls(j) = <<>> /\ poll[j] = IdlePoll
                /\ Len(paths[j]) < 3
            /\ raised[j].at = "submit" =>
                /\ poll[j] = IdlePoll /\ HistoryCalls(j) = <<>> /\ visited[j] = <<>>
            /\ raised[j].at = "publish" =>
                /\ Len(outputs[j]) = Cardinality(VisitedToPublish(j)) - 1
                /\ Len(visited[j]) \in VisitedToPublish(j))
    /\ [][\A j \in AllJobs :
            pc[j] = "done" =>
                /\ pc'[j] = "done"
                /\ UNCHANGED <<request[j], job_id[j], paths[j], workflow[j], prompt_id[j],
                               result[j], cursor[j], outputs[j], response[j], visited[j],
                               poll[j], calls[j], raised[j]>>]_vars

\* A job that published one file, failed at the next and stopped there.
C18_Witness ==
    \E j \in AllJobs :
        /\ raised[j].at = "publish"
        /\ pc[j] = "done"
        /\ Len(outputs[j]) = 1
        /\ Len(visited[j]) < Len(FlatItems(result[j].outputs))
        /\ Len(DownloadCalls(j)) = 3

TimeoutMessage == <<"Workflow did not complete within max_wait seconds">>
TimedOut(j) == poll[j].state = "TIMED_OUT" /\ pc[j] = "done"
UnderDir(d, q) == Len(q) > Len(d) /\ SubSeq(q, 1, Len(d)) = d

\* C19: a job whose poll timed out is answered FAILED with the timeout
\* message; its last call was the submission or a status query, and it makes
\* no call afterwards; the engine still has the job as submitted, running or
\* completed, and goes on with it; and the job has visited and published
\* nothing, then and later: no entry, no object in the store, no file
\* outside the staging and the output directory.
C19_TimeoutLeavesEngineJob ==
    /\ [](\A j \in AllJobs :
            TimedOut(j) =>
                /\ raised[j] = Exc("TimeoutError", TimeoutMessage, "wait")
                /\ IsFailedResult(response[j], ExpectedJobId(j))
                /\ response[j].body.error = TimeoutMessage
                /\ calls[j][Len(calls[j])].op \in {"post_prompt", "get_history"}
                /\ UploadCalls(j) = <<>>
                /\ engine[prompt_id[j]].status \in {"running", "done"}
                /\ engine[prompt_id[j]].prompt = workflow[j].doc
                /\ engine[prompt_id[j]].status = "running"
                        => ENABLED EngineComplete(prompt_id[j])
                /\ visited[j] = <<>> /\ outputs[j] = <<>> /\ result[j] = NoResult
                /\ s3 = InitS3
                /\ \A q \in DOMAIN fs \ DOMAIN InitFs :
                        UnderDir(INPUT_DIR, q) \/ UnderDir(OUTPUT_DIR, q))
    /\ [][\A j \in AllJobs :
            TimedOut(j) =>
                /\ calls'[j] = calls[j]
                /\ outputs'[j] = outputs[j] /\ visited'[j] = visited[j]
                /\ response'[j] = response[j]
                /\ engine'[prompt_id[j]].status # "none"
                /\ engine'[prompt_id[j]].prompt = engine[prompt_id[j]].prompt]_vars

\* The engine completed a job whose handler had timed out; its files stay in
\* the output directory.
C19_Witness ==
    \E j \in AllJobs :
        /\ TimedOut(j)
        /\ poll[j].last = "empty"
        /\ engine[prompt_id[j]].status = "done"
        /\ OutputPath(FileR) \in DOMAIN fs
        /\ response[j].http = 500
        /\ DestOf(j) = DestDir

\* What a job running alone has at submission: the path each input resolves
\* to, the object a remote reference names, the canonical template with the
\* job's paths.
AlonePath(j, k) ==
    IF IsRemote(FieldRef(j, k))
    THEN INPUT_DIR \o <<SL>> \o LastSegment(FieldRef(j, k))
    ELSE FieldRef(j, k)
ObjectOf(ref) == s3[<<<<ref[2]>>, SubSeq(ref, 4, Len(ref))>>]
AloneWorkflow(j) ==
    [WFcanon EXCEPT !.nodes["1"].inputs.audio = AlonePath(j, 1),
                    !.nodes["2"].inputs.text_file = AlonePath(j, 2),
                    !.nodes["2"].inputs.image = AlonePath(j, 3)]
Submits(j) == pc[j] = "submit" /\ pc'[j] = "wait"

\* C20: when a job submits its workflow, whatever another job in flight has
\* done in between, the workflow is the one the job would submit alone and
\* every staged input file it names holds the object the job's own
\* reference names.
C20_JobsIsolated ==
    [][\A j \in AllJobs :
        Submits(j) =>
            /\ engine'[HandleOf(j)].prompt = AloneWorkflow(j)
            /\ \A k \in 1..3 :
                IsRemote(FieldRef(j, k)) =>
                    /\ paths[j][k] \in DOMAIN fs
                    /\ fs[paths[j][k]] = ObjectOf(FieldRef(j, k))]_vars

\* The part of C20 that the code has: the workflow submitted is the job's own.
C20_OwnWorkflow ==
    [][\A j \in AllJobs :
        Submits(j) => engine'[HandleOf(j)].prompt = AloneWorkflow(j)]_vars

\* Both jobs submitted, the second with an audio key of another basename.
C20_Witness ==
    /\ engine[HandleOf("j1")].status # "none"
    /\ engine[HandleOf("j2")].status # "none"
    /\ request["j2"].data["audio_s3"] = RefI

Terminal(p) == p.state \in {"DONE", "TIMED_OUT"}

\* C21: a call of wait_for_completion whose queries all return or fail, and
\* whose sleeps end, reaches DONE or TIMED_OUT; and from then on its frame
\* does not change, it makes no status query and it lets no time pass.
C21_PollerTerminates ==
    /\ <>Terminal(poll["j1"])
    /\ [](poll["j1"].state \in {"POLLING", "DONE", "TIMED_OUT"})
    /\ [][\A j \in AllJobs :
            Terminal(poll[j]) =>
                /\ poll'[j] = poll[j]
                /\ calls'[j] = calls[j]
                /\ now' = now]_vars

\* A call that ended after several rounds of the loop, queries having
\* failed, with the engine's job completed afterwards or unseen.
C21_Witness ==
    /\ Terminal(poll["j1"])
    /\ Len(calls["j1"]) >= 3
    /\ poll["j1"].failed
    /\ poll["j1"].poll_interval = 1
    /\ poll["j1"].max_wait = MaxWaitArg

Elapsed(p, t) == t - p.start_time

\* C22: a status query answered with outputs for the handle ends the call
\* with the engine's record, however much time has passed when the answer
\* arrives; the deadline ends the call only at the loop condition, before a
\* query; so a call that timed out was never answered with outputs, and a
\* call that was is DONE.
C22_CompletionBeforeDeadline ==
    /\ [][\A j \in AllJobs :
            (poll[j].at = "query" /\ poll'[j] # poll[j] /\ poll'[j].last = "outputs") =>
                /\ poll'[j].state = "DONE"
                /\ poll'[j].returned = [outputs |-> engine[poll[j].prompt_id].outputs]
                /\ poll'[j].ended_at = now']_vars
    /\ [][\A j \in AllJobs :
            (poll[j].state = "POLLING" /\ poll'[j].state = "TIMED_OUT") =>
                /\ poll[j].at = "check"
                /\ now' = now
                /\ calls'[j] = calls[j]
                /\ Elapsed(poll[j], now) >= poll[j].max_wait]_vars
    /\ [](\A j \in AllJobs :
            /\ poll[j].state = "TIMED_OUT" => ~poll[j].reported
            /\ poll[j].reported => poll[j].state = "DONE")

\* An answer with outputs that arrived when max_wait had passed: the call
\* returned.
C22_Witness ==
    /\ poll["j1"].state = "DONE"
    /\ poll["j1"].max_wait > 0
    /\ Elapsed(poll["j1"], poll["j1"].ended_at) >= poll["j1"].max_wait
    /\ poll["j1"].returned.outputs = OutMany

\* The job's three inputs are remote references to three different objects.
ThreeRemoteObjects(j) ==
    /\ \A k \in 1..3 : IsRemote(FieldRef(j, k))
    /\ \A k, m \in 1..3 : k # m => FieldRef(j, k) # FieldRef(j, m)

\* C23: when a job with a storage client and three remote inputs naming
\* three different objects submits its workflow, each of its three paths
\* holds the object its own reference names, and no two of the paths are
\* the same.
C23_OwnContentAtSubmission ==
    [][\A j \in AllJobs :
        (Submits(j) /\ s3_client /\ ThreeRemoteObjects(j)) =>
            /\ \A k \in 1..3 :
                /\ paths[j][k] \in DOMAIN fs
                /\ fs[paths[j][k]] = ObjectOf(FieldRef(j, k))
            /\ \A k, m \in 1..3 : k # m => paths[j][k] # paths[j][m]]_vars

\* What the code has instead: each path is the staging directory joined
\* with the last segment of its key, and holds the object of the last input
\* resolved to that path.
C23_StagedByBasename ==
    [][\A j \in AllJobs :
        (Submits(j) /\ s3_client /\ ThreeRemoteObjects(j)) =>
            \A k \in 1..3 :
                /\ paths[j][k] = AlonePath(j, k)
                /\ fs[paths[j][k]] =
                    ObjectOf(FieldRef(j, Max({m \in 1..3 : paths[j][m] = paths[j][k]})))]_vars

\* A job submitted with audio s3://b/k and transcript s3://b/d/k.
C23_Witness ==
    \E j \in AllJobs :
        /\ pc[j] = "wait" /\ s3_client
        /\ FieldRef(j, 1) = RefKey /\ FieldRef(j, 2) = RefDeep /\ FieldRef(j, 3) = RefI
        /\ paths[j][1] = paths[j][2]
        /\ fs[paths[j][1]] = ObjContent(<<"b">>, <<"d", SL, "k">>)

JoinDir(d, name) == IF d[Len(d)] = SL THEN d \o name ELSE d \o <<SL>> \o name

\* C24: without a storage client no job downloads or uploads anything and
\* the store stays as it was; an s3:// input is resolved to itself when a
\* local file of that very name exists, and otherwise ends the job as a
\* FAILED result with FileNotFoundError; a file published to an s3://
\* destination is moved into a local directory of that name, and the entry's
\* url is the path of the moved file, not a URL of the store.
C24_NoClientNoStorage ==
    ~s3_client =>
        /\ s3 = InitS3
        /\ \A j \in AllJobs :
            /\ DownloadCalls(j) = <<>> /\ UploadCalls(j) = <<>>
            /\ \A k \in 1..ResolvesMade(j) :
                IsRemote(FieldRef(j, k)) =>
                    IF k <= Len(paths[j]) THEN
                        /\ paths[j][k] = FieldRef(j, k)
                        /\ FieldRef(j, k) \in DOMAIN InitFs
                        /\ fs[paths[j][k]] = InitFs[FieldRef(j, k)]
                    ELSE
                        /\ FieldRef(j, k) \notin DOMAIN InitFs
                        /\ raised[j].type = "FileNotFoundError"
                        /\ pc[j] = "done"
                        /\ IsFailedResult(response[j], ExpectedJobId(j))
            /\ (Complete(j) /\ IsRemote(DestOf(j))) =>
                \A k \in 1..Len(outputs[j]) :
                    LET name == outputs[j][k].filename IN
                    /\ outputs[j][k].url = JoinDir(DestOf(j), name)
                    /\ outputs[j][k].url \in DOMAIN fs
                    /\ fs[outputs[j][k].url] = RenderContent(prompt_id[j], name)
                    /\ OutputPath(name) \notin DOMAIN fs
                    /\ DestOf(j) \in dirs

\* Without a client: an s3:// image that is a local file, and a file moved
\* into a directory named like a bucket with a prefix.
C24_Witness ==
    \E j \in AllJobs :
        /\ ~s3_client
        /\ response[j].http = 200
        /\ paths[j] = <<RefLocal, RefLocal, RefI>>
        /\ DestOf(j) = DestPrefix
        /\ outputs[j] # <<>>
        /\ outputs[j][1].url = <<S3, "out", SL, "pre", SL, "r.png">>
        /\ calls[j][1].op = "post_prompt"

\* Without a client: an s3:// audio that is no local file ended the job.
C24_NotFoundWitness ==
    \E j \in AllJobs :
        /\ ~s3_client
        /\ Complete(j) /\ FieldRef(j, 1) = RefKey
        /\ raised[j].type = "FileNotFoundError"
        /\ response[j].http = 500 /\ calls[j] = <<>>

====
